---- MODULE Spec2Model ----
(***************************************************************************)
(* Model of redfish-core/include/utils/hw_isolation.hpp.                   *)
(*                                                                         *)
(* An orchestration is one call of processHardwareIsolationReq on its own  *)
(* response (aResp).  Every remote call (async_method_call) is logged in   *)
(* calls[r] and stays in pending[r] until its completion handler runs; a   *)
(* handler is one atomic action that draws the reply of the bus from a     *)
(* bounded set, logs it in replies[r] and does what the lambda does.       *)
(*                                                                         *)
(* Strings are TLA+ strings.  A D-Bus object path is the sequence of its   *)
(* '/'-separated segments: "" is << >>, "/" is <<"">>, "/a/b" is           *)
(* <<"a","b">>, so that appending a segment is string concatenation of     *)
(* "/segment" and filename() is the text after the last '/'.               *)
(***************************************************************************)
EXTENDS Integers, Sequences, FiniteSets, TLC

\* Bounds of the model (not program constants).
MaxObjects == 2
MaxOwners == 2
MaxEndpoints == 3

VARIABLES
    req,        \* r -> the arguments of processHardwareIsolationReq
    pc,         \* r -> "entry" before the call, "async" after it returned
    calls,      \* r -> sequence of the remote calls issued so far
    pending,    \* r -> indices into calls[r] of the calls not yet completed
    replies,    \* r -> sequence of the replies the handlers were run with
    closure,    \* r -> values the lambdas captured along the chain
    res,        \* r -> aResp->res
    crashed,    \* the process was ended by an out-of-range access
    registry    \* the message registry entry of HardwareIsolationReason

vars == <<req, pc, calls, pending, replies, closure, res, crashed, registry>>

\* Values

SeqUpTo(S, n) == UNION {[1..k -> S] : k \in 0..n}

nullptr == "nullptr"

\* boost::system::error_code values: 0 is success, 5 (EIO) and 53 (EBADR)
\* are failures.
EBADR == 53
ErrorCodes == {0, 5, EBADR}
Failures == ErrorCodes \ {0}

emptyPath == << >>
ObjectMapperService == "xyz.openbmc_project.ObjectMapper"
ObjectMapperPath == <<"xyz", "openbmc_project", "object_mapper">>
InventoryRoot == <<"xyz", "openbmc_project", "inventory">>
HardwareIsolationPath == <<"xyz", "openbmc_project", "hardware_isolation">>
ObjectEnableIface == "xyz.openbmc_project.Object.Enable"
CreateIface == "xyz.openbmc_project.HardwareIsolation.Create"
ManualEntryType == "xyz.openbmc_project.HardwareIsolation.Entry.Type.Manual"

\* Inputs of the requests.
ResourceNames == {"Processor", "Memory"}
ResourceIds == {"cpu0", "cpu1"}
InterfaceLists == {<<"xyz.openbmc_project.Inventory.Item.Cpu">>,
                   <<"xyz.openbmc_project.Inventory.Item.Dimm",
                     "xyz.openbmc_project.Inventory.Item">>}

\* What the bus can answer.
InventoryPaths == {<<"inventory", "system", "cpu0">>,
                   <<"inventory", "system", "chassis", "cpu0">>,
                   <<"inventory", "system", "cpu1">>,
                   <<"inventory", "system", "dimm0">>}
ServiceNames == {"xyz.svc.A", "xyz.svc.B"}
OwnerEntries == {[first |-> s, second |-> <<CreateIface>>] :
                     s \in ServiceNames \cup {""}}
EntryPaths == {<<"e", "1">>, <<"e", "2">>, <<"e", "3">>}

\* sd_bus_error names a failed Create or Delete call can carry.
ErrInvalidArgument == "xyz.openbmc_project.Common.Error.InvalidArgument"
ErrNotAllowed == "xyz.openbmc_project.Common.Error.NotAllowed"
ErrUnavailable == "xyz.openbmc_project.Common.Error.Unavailable"
ErrIsolatedAlready ==
    "xyz.openbmc_project.HardwareIsolation.Error.IsolatedAlready"
ErrTooManyResources == "xyz.openbmc_project.Common.Error.TooManyResources"
IsolateTable == {ErrInvalidArgument, ErrNotAllowed, ErrUnavailable,
                 ErrIsolatedAlready, ErrTooManyResources}
OtherErrorNames == {"xyz.openbmc_project.Common.Error.InternalFailure",
                    "org.freedesktop.DBus.Error.NotAllowed",
                    "xyz.openbmc_project.Common.Error.IsolatedAlready"}
ErrorNames == IsolateTable \cup OtherErrorNames

\* redfish::messages: the message each call adds to the response.

Message(id, args) == [MessageId |-> id, MessageArgs |-> args]

success == Message("Success", << >>)
internalError == Message("InternalError", << >>)
resourceNotFound(arg1, arg2) == Message("ResourceNotFound", <<arg1, arg2>>)
resourceAlreadyExists(arg1, arg2, arg3) ==
    Message("ResourceAlreadyExists", <<arg1, arg2, arg3>>)
propertyValueIncorrect(arg1, arg2) ==
    Message("PropertyValueIncorrect", <<arg1, arg2>>)
propertyNotWritable(arg1) == Message("PropertyNotWritable", <<arg1>>)
resourceInStandby == Message("ResourceInStandby", << >>)
createLimitReachedForResource ==
    Message("CreateLimitReachedForResource", << >>)

\* std::to_string applied to a bool: the bool is promoted to int.
to_string(b) == IF b THEN "1" ELSE "0"

\* sdbusplus::message::object_path

\* The text after the last '/', "" when the path has no '/'.  The segments
\* of the model's paths do not start with '_', so none is decoded.
filename(path) == IF Len(path) = 0 THEN "" ELSE path[Len(path)]

\* back() replaced by front().
front(v) == v[1]

\* std::vector::back() of a non-empty vector.
back(v) == v[Len(v)]

\* std::get_if<std::vector<std::string>> on the variant of a property Get:
\* a pointer, modelled as << >> when null and <<value>> otherwise.
get_if(v) == IF v.holds THEN <<v.value>> ELSE << >>


\* The remote-call primitive (crow::connections::systemBus->async_method_call)

Call(service, path, interface, method, args) ==
    [service |-> service, path |-> path, interface |-> interface,
     method |-> method, args |-> args]

\* The replies a completion handler can be run with.  On a failure the
\* handler gets default-constructed values.
GetSubTreePathsReplies ==
    {[ec |-> e, objects |-> << >>] : e \in Failures} \cup
    {[ec |-> 0, objects |-> o] : o \in SeqUpTo(InventoryPaths, MaxObjects)}
GetObjectReplies ==
    {[ec |-> e, objType |-> << >>] : e \in Failures} \cup
    {[ec |-> 0, objType |-> o] : o \in SeqUpTo(OwnerEntries, MaxOwners)}
EndpointsReplies ==
    {[ec |-> e, vEndpoints |-> [holds |-> TRUE, value |-> << >>]] :
         e \in Failures} \cup
    {[ec |-> 0, vEndpoints |-> [holds |-> FALSE, value |-> << >>]]} \cup
    {[ec |-> 0, vEndpoints |-> [holds |-> TRUE, value |-> v]] :
         v \in SeqUpTo(EntryPaths, MaxEndpoints)}
\* msg.get_error() of a method reply: nullptr or an error with a name.
MethodReplies ==
    {[ec |-> 0, dbusError |-> nullptr]} \cup
    {[ec |-> e, dbusError |-> n] :
         e \in Failures, n \in {nullptr} \cup ErrorNames}

\* What an out-of-range read of a string can yield when it does not abort.
GarbageServiceNames == {"xyz.svc.B", ""}
GarbageEntryPaths == EntryPaths \cup {emptyPath}

\* processHardwareIsolationReq: the call it issues

\* resourceIfacesOf without the push_back of the marker interface.
resourceIfacesOfNoMarker(interfaces) == interfaces

resourceIfacesOf(interfaces) == Append(interfaces, ObjectEnableIface)

getSubTreePathsCall(interfaces) ==
    Call(ObjectMapperService, ObjectMapperPath, ObjectMapperService,
         "GetSubTreePaths", <<InventoryRoot, 0, resourceIfacesOf(interfaces)>>)

\* findResourceObjPath without the comparison of the filename.
RECURSIVE findResourceObjPathAnyObject(_, _)
findResourceObjPathAnyObject(objects, resourceId) ==
    IF objects = << >> THEN emptyPath ELSE Head(objects)

\* findResourceObjPath without the break: the last object whose filename
\* is resourceId.
RECURSIVE findResourceObjPathNoBreak(_, _)
findResourceObjPathNoBreak(objects, resourceId) ==
    IF objects = << >> THEN emptyPath
    ELSE LET rest == findResourceObjPathNoBreak(Tail(objects), resourceId)
         IN IF rest # emptyPath THEN rest
            ELSE IF filename(Head(objects)) = resourceId THEN Head(objects)
            ELSE emptyPath

\* The loop over the objects of the subtree reply: the first object whose
\* filename is resourceId, the empty path when there is none.
RECURSIVE findResourceObjPath(_, _)
findResourceObjPath(objects, resourceId) ==
    IF objects = << >> THEN emptyPath
    ELSE IF filename(Head(objects)) = resourceId THEN Head(objects)
    ELSE findResourceObjPath(Tail(objects), resourceId)

getObjectCall ==
    Call(ObjectMapperService, ObjectMapperPath, ObjectMapperService,
         "GetObject", <<HardwareIsolationPath, <<CreateIface>>>>)

\* ownerLookupFailed with the size check off by one.
ownerLookupFailedOffByOne(ec, objType) == ec # 0 \/ Len(objType) > 2

\* The checks of the GetObject handler made before objType[0] is read.
ownerLookupFailed(ec, objType) == ec # 0 \/ Len(objType) > 1

\* isolateResource

isolateResourceCall(resourceObjPath, hwIsolationDbusName) ==
    Call(hwIsolationDbusName, HardwareIsolationPath, CreateIface, "Create",
         <<resourceObjPath, ManualEntryType>>)

\* The text of an error name after its last '.'.
ErrorSuffix(name) ==
    IF name \in {ErrInvalidArgument} THEN "InvalidArgument"
    ELSE IF name \in {ErrNotAllowed, "org.freedesktop.DBus.Error.NotAllowed"}
    THEN "NotAllowed"
    ELSE IF name \in {ErrUnavailable} THEN "Unavailable"
    ELSE IF name \in {ErrIsolatedAlready,
                      "xyz.openbmc_project.Common.Error.IsolatedAlready"}
    THEN "IsolatedAlready"
    ELSE IF name \in {ErrTooManyResources} THEN "TooManyResources"
    ELSE "InternalFailure"

\* isolateErrorOutcome comparing only the text after the last '.'.
isolateErrorOutcomeBySuffix(name, resourceName, resourceId) ==
    IF ErrorSuffix(name) = "InvalidArgument"
    THEN propertyValueIncorrect("@odata.id", to_string(FALSE))
    ELSE IF ErrorSuffix(name) = "NotAllowed"
    THEN propertyNotWritable("Enabled")
    ELSE IF ErrorSuffix(name) = "Unavailable" THEN resourceInStandby
    ELSE IF ErrorSuffix(name) = "IsolatedAlready"
    THEN resourceAlreadyExists("@odata.id", resourceName, resourceId)
    ELSE IF ErrorSuffix(name) = "TooManyResources"
    THEN createLimitReachedForResource
    ELSE internalError

\* isolateErrorOutcome with the NotAllowed branch of the Delete handler.
isolateErrorOutcomeEntry(name, resourceName, resourceId) ==
    IF name = ErrInvalidArgument
    THEN propertyValueIncorrect("@odata.id", to_string(FALSE))
    ELSE IF name = ErrNotAllowed THEN propertyNotWritable("Entry")
    ELSE IF name = ErrUnavailable THEN resourceInStandby
    ELSE IF name = ErrIsolatedAlready
    THEN resourceAlreadyExists("@odata.id", resourceName, resourceId)
    ELSE IF name = ErrTooManyResources THEN createLimitReachedForResource
    ELSE internalError

\* isolateErrorOutcome with resourceName and resourceId exchanged.
isolateErrorOutcomeSwapped(name, resourceName, resourceId) ==
    IF name = ErrInvalidArgument
    THEN propertyValueIncorrect("@odata.id", to_string(FALSE))
    ELSE IF name = ErrNotAllowed THEN propertyNotWritable("Enabled")
    ELSE IF name = ErrUnavailable THEN resourceInStandby
    ELSE IF name = ErrIsolatedAlready
    THEN resourceAlreadyExists("@odata.id", resourceId, resourceName)
    ELSE IF name = ErrTooManyResources THEN createLimitReachedForResource
    ELSE internalError

\* The strcmp chain on dbusError->name of the Create handler.
isolateErrorOutcome(name, resourceName, resourceId) ==
    IF name = ErrInvalidArgument
    THEN propertyValueIncorrect("@odata.id", to_string(FALSE))
    ELSE IF name = ErrNotAllowed THEN propertyNotWritable("Enabled")
    ELSE IF name = ErrUnavailable THEN resourceInStandby
    ELSE IF name = ErrIsolatedAlready
    THEN resourceAlreadyExists("@odata.id", resourceName, resourceId)
    ELSE IF name = ErrTooManyResources THEN createLimitReachedForResource
    ELSE internalError

\* createHandlerMessages without the return after messages::success.
createHandlerMessagesNoReturn(ec, dbusError, resourceName, resourceId) ==
    IF ec = 0 THEN <<success, internalError>>
    ELSE IF dbusError = nullptr THEN <<internalError>>
    ELSE <<isolateErrorOutcome(dbusError, resourceName, resourceId)>>

\* createHandlerMessages deciding success on the absence of an error name.
createHandlerMessagesNoName(ec, dbusError, resourceName, resourceId) ==
    IF dbusError = nullptr THEN <<success>>
    ELSE <<isolateErrorOutcome(dbusError, resourceName, resourceId)>>

\* The messages the Create handler adds to the response.
createHandlerMessages(ec, dbusError, resourceName, resourceId) ==
    IF ec = 0 THEN <<success>>
    ELSE IF dbusError = nullptr THEN <<internalError>>
    ELSE <<isolateErrorOutcome(dbusError, resourceName, resourceId)>>

\* deisolateResource

endpointsCall(resourceObjPath) ==
    Call(ObjectMapperService, Append(resourceObjPath, "isolated_hw_entry"),
         "org.freedesktop.DBus.Properties", "Get",
         <<"xyz.openbmc_project.Association", "endpoints">>)

\* endpointsReadFailed without the test of ec.
endpointsReadFailedNoEc(ec, vEndpoints) == get_if(vEndpoints) = << >>

\* The checks of the endpoints handler made before endpoints->back().
endpointsReadFailed(ec, vEndpoints) == ec # 0 \/ get_if(vEndpoints) = << >>

deleteCall(hwIsolationDbusName, resourceIsolatedHwEntry) ==
    Call(hwIsolationDbusName, resourceIsolatedHwEntry,
         "xyz.openbmc_project.Object.Delete", "Delete", << >>)

\* deisolateErrorOutcome with the NotAllowed branch of the Create handler.
deisolateErrorOutcomeEnabled(name) ==
    IF name = ErrNotAllowed THEN propertyNotWritable("Enabled")
    ELSE IF name = ErrUnavailable THEN resourceInStandby
    ELSE internalError

\* The strcmp chain on dbusError->name of the Delete handler.
deisolateErrorOutcome(name) ==
    IF name = ErrNotAllowed THEN propertyNotWritable("Entry")
    ELSE IF name = ErrUnavailable THEN resourceInStandby
    ELSE internalError

\* The messages the Delete handler adds to the response.
deleteHandlerMessages(ec, dbusError) ==
    IF ec = 0 THEN <<success>>
    ELSE IF dbusError = nullptr THEN <<internalError>>
    ELSE <<deisolateErrorOutcome(dbusError)>>


\* State machine

Requests == [resourceName : ResourceNames, resourceId : ResourceIds,
             enabled : BOOLEAN, interfaces : InterfaceLists]

noClosure == [resourceObjPath |-> emptyPath, hwIsolationDbusName |-> "",
              resourceIsolatedHwEntry |-> emptyPath,
              hwStatusEventObj |-> emptyPath]

\* The response handed in by the caller: no message yet, and the Status
\* block the resource handler has filled in.
initialRes == [messages |-> << >>,
               jsonValue |-> [Status |-> [State |-> "Enabled",
                                          Health |-> "OK"]]]

\* The entry of OpenBMC.0.2.HardwareIsolationReason in the registry, as the
\* pointer getMessage returns: << >> when null, <<entry>> otherwise.  A
\* template is the sequence of its pieces.
defaultRegistry == <<[message |-> <<"Reason: ", "%1", " detected">>]>>

\* Everything but the requests themselves.
InitState(ids) ==
    /\ pc = [r \in ids |-> "entry"]
    /\ calls = [r \in ids |-> << >>]
    /\ pending = [r \in ids |-> {}]
    /\ replies = [r \in ids |-> << >>]
    /\ closure = [r \in ids |-> noClosure]
    /\ res = [r \in ids |-> initialRes]
    /\ crashed = FALSE

InitFor(ids) ==
    /\ req \in [ids -> Requests]
    /\ InitState(ids)
    /\ registry = defaultRegistry

Init == InitFor({1})

\* async_method_call: log the call and leave it outstanding.
Issue(r, call) ==
    /\ calls' = [calls EXCEPT ![r] = Append(@, call)]
    /\ pending' = [pending EXCEPT ![r] = @ \cup {Len(calls[r]) + 1}]

\* The handler of call i runs with reply rep, adds msgs to the response and
\* returns without a further call.
Return(r, i, rep, msgs) ==
    /\ replies' = [replies EXCEPT ![r] = Append(@, [call |-> i, reply |-> rep])]
    /\ pending' = [pending EXCEPT ![r] = @ \ {i}]
    /\ res' = [res EXCEPT ![r].messages = @ \o msgs]
    /\ UNCHANGED <<req, pc, calls, closure, crashed, registry>>

\* The handler of call i runs with reply rep and issues the next call.
Continue(r, i, rep, call, captured) ==
    /\ replies' = [replies EXCEPT ![r] = Append(@, [call |-> i, reply |-> rep])]
    /\ calls' = [calls EXCEPT ![r] = Append(@, call)]
    /\ pending' = [pending EXCEPT ![r] = (@ \ {i}) \cup {Len(calls[r]) + 1}]
    /\ closure' = [closure EXCEPT ![r] = captured]
    /\ UNCHANGED <<req, pc, res, crashed, registry>>

\* The handler of call i runs with reply rep and the out-of-range access in
\* it ends the process.
Abort(r, i, rep) ==
    /\ replies' = [replies EXCEPT ![r] = Append(@, [call |-> i, reply |-> rep])]
    /\ pending' = [pending EXCEPT ![r] = @ \ {i}]
    /\ crashed' = TRUE
    /\ UNCHANGED <<req, pc, calls, closure, res, registry>>

Outstanding(r, method) == {i \in pending[r] : calls[r][i].method = method}

\* processHardwareIsolationReq with the owner lookup, whose arguments are
\* fixed, issued at entry next to the subtree query.
processHardwareIsolationReqBothAtEntry(r) ==
    /\ ~crashed
    /\ pc[r] = "entry"
    /\ calls' = [calls EXCEPT ![r] =
                     <<getSubTreePathsCall(req[r].interfaces), getObjectCall>>]
    /\ pending' = [pending EXCEPT ![r] = {1, 2}]
    /\ pc' = [pc EXCEPT ![r] = "async"]
    /\ UNCHANGED <<req, replies, closure, res, crashed, registry>>

\* processHardwareIsolationReq with success reported at entry, before the
\* chain has run.
processHardwareIsolationReqEagerSuccess(r) ==
    /\ ~crashed
    /\ pc[r] = "entry"
    /\ Issue(r, getSubTreePathsCall(req[r].interfaces))
    /\ pc' = [pc EXCEPT ![r] = "async"]
    /\ res' = [res EXCEPT ![r].messages = Append(@, success)]
    /\ UNCHANGED <<req, replies, closure, crashed, registry>>

\* processHardwareIsolationReq up to its return: issues GetSubTreePaths.
processHardwareIsolationReq(r) ==
    /\ ~crashed
    /\ pc[r] = "entry"
    /\ Issue(r, getSubTreePathsCall(req[r].interfaces))
    /\ pc' = [pc EXCEPT ![r] = "async"]
    /\ UNCHANGED <<req, replies, closure, res, crashed, registry>>

\* The handler of GetSubTreePaths without the test of ec.
GetSubTreePathsHandlerNoEc(r) ==
    /\ ~crashed
    /\ \E i \in Outstanding(r, "GetSubTreePaths") :
       \E rep \in GetSubTreePathsReplies :
         LET resourceObjPath ==
                 findResourceObjPath(rep.objects, req[r].resourceId)
         IN IF resourceObjPath = emptyPath
            THEN Return(r, i, rep, <<resourceNotFound(req[r].resourceName,
                                                     req[r].resourceId)>>)
            ELSE Continue(r, i, rep, getObjectCall,
                          [closure[r] EXCEPT
                               !.resourceObjPath = resourceObjPath])

\* The handler of GetSubTreePaths.
GetSubTreePathsHandler(r) ==
    /\ ~crashed
    /\ \E i \in Outstanding(r, "GetSubTreePaths") :
       \E rep \in GetSubTreePathsReplies :
         LET resourceObjPath ==
                 findResourceObjPath(rep.objects, req[r].resourceId)
         IN IF rep.ec # 0
            THEN Return(r, i, rep, <<internalError>>)
            ELSE IF resourceObjPath = emptyPath
            THEN Return(r, i, rep, <<resourceNotFound(req[r].resourceName,
                                                     req[r].resourceId)>>)
            ELSE Continue(r, i, rep, getObjectCall,
                          [closure[r] EXCEPT
                               !.resourceObjPath = resourceObjPath])

\* ownerDispatch without the test for an empty name.
ownerDispatchNoEmptyTest(r, i, rep, first) ==
    IF ~req[r].enabled
    THEN Continue(r, i, rep,
                  isolateResourceCall(closure[r].resourceObjPath, first),
                  [closure[r] EXCEPT !.hwIsolationDbusName = first])
    ELSE Continue(r, i, rep, endpointsCall(closure[r].resourceObjPath),
                  [closure[r] EXCEPT !.hwIsolationDbusName = first])

\* ownerDispatch with the test of enabled inverted.
ownerDispatchInverted(r, i, rep, first) ==
    IF first = ""
    THEN Return(r, i, rep, <<internalError>>)
    ELSE IF req[r].enabled
    THEN Continue(r, i, rep,
                  isolateResourceCall(closure[r].resourceObjPath, first),
                  [closure[r] EXCEPT !.hwIsolationDbusName = first])
    ELSE Continue(r, i, rep, endpointsCall(closure[r].resourceObjPath),
                  [closure[r] EXCEPT !.hwIsolationDbusName = first])

\* The GetObject handler from the read of objType[0].first on.
ownerDispatch(r, i, rep, first) ==
    IF first = ""
    THEN Return(r, i, rep, <<internalError>>)
    ELSE IF ~req[r].enabled
    THEN Continue(r, i, rep,
                  isolateResourceCall(closure[r].resourceObjPath, first),
                  [closure[r] EXCEPT !.hwIsolationDbusName = first])
    ELSE Continue(r, i, rep, endpointsCall(closure[r].resourceObjPath),
                  [closure[r] EXCEPT !.hwIsolationDbusName = first])

\* The handler of GetObject.  objType[0] of an empty objType is an
\* out-of-range read: the process aborts or the read yields some string.
GetObjectHandler(r) ==
    /\ ~crashed
    /\ \E i \in Outstanding(r, "GetObject") :
       \E rep \in GetObjectReplies :
         IF ownerLookupFailed(rep.ec, rep.objType)
         THEN Return(r, i, rep, <<internalError>>)
         ELSE IF Len(rep.objType) > 0
         THEN ownerDispatch(r, i, rep, rep.objType[1].first)
         ELSE \/ Abort(r, i, rep)
              \/ \E g \in GarbageServiceNames : ownerDispatch(r, i, rep, g)

\* The handler of Create (isolateResource).
CreateHandler(r) ==
    /\ ~crashed
    /\ \E i \in Outstanding(r, "Create") :
       \E rep \in MethodReplies :
         Return(r, i, rep,
                createHandlerMessages(rep.ec, rep.dbusError,
                                      req[r].resourceName, req[r].resourceId))

\* The handler of the isolated_hw_entry endpoints read (deisolateResource).
\* endpoints->back() of an empty list is an out-of-range read: the process
\* aborts or the read yields some string.
EndpointsHandler(r) ==
    /\ ~crashed
    /\ \E i \in Outstanding(r, "Get") :
       \E rep \in EndpointsReplies :
         IF endpointsReadFailed(rep.ec, rep.vEndpoints)
         THEN Return(r, i, rep, <<internalError>>)
         ELSE LET endpoints == get_if(rep.vEndpoints)[1]
                  next(entry) ==
                      Continue(r, i, rep,
                               deleteCall(closure[r].hwIsolationDbusName,
                                          entry),
                               [closure[r] EXCEPT
                                    !.resourceIsolatedHwEntry = entry])
              IN IF Len(endpoints) > 0
                 THEN next(back(endpoints))
                 ELSE \/ Abort(r, i, rep)
                      \/ \E g \in GarbageEntryPaths : next(g)

\* The handler of Delete (deisolateResource).
DeleteHandler(r) ==
    /\ ~crashed
    /\ \E i \in Outstanding(r, "Delete") :
       \E rep \in MethodReplies :
         Return(r, i, rep, deleteHandlerMessages(rep.ec, rep.dbusError))

Next ==
    \/ \E r \in DOMAIN req : processHardwareIsolationReq(r)
    \/ \E r \in DOMAIN req : GetSubTreePathsHandler(r)
    \/ \E r \in DOMAIN req : GetObjectHandler(r)
    \/ \E r \in DOMAIN req : CreateHandler(r)
    \/ \E r \in DOMAIN req : EndpointsHandler(r)
    \/ \E r \in DOMAIN req : DeleteHandler(r)

Spec == Init /\ [][Next]_vars

\* Every issued remote call completes and every handler that can run does.
LiveSpec == Spec /\ WF_vars(Next)


\* Two orchestrations at once, each on its own response.  To keep the
\* product of the two chains small the replies are taken from a part of the
\* reply sets: lists of at most one element, one failure code, one error
\* name.
PairRequests == [resourceName : ResourceNames, resourceId : {"cpu0"},
                 enabled : BOOLEAN,
                 interfaces : {<<"xyz.openbmc_project.Inventory.Item.Cpu">>}]

PairInit ==
    /\ InitFor({1, 2})
    /\ req[1] \in PairRequests /\ req[2] \in PairRequests
    /\ req[1].resourceName = "Processor" /\ req[2].resourceName = "Memory"

PairReply(rep) ==
    /\ rep.ec \in {0, 5}
    /\ "objects" \in DOMAIN rep =>
           /\ Len(rep.objects) <= 1
           /\ \A j \in 1..Len(rep.objects) :
                  rep.objects[j] \in {<<"inventory", "system", "cpu0">>,
                                      <<"inventory", "system", "cpu1">>}
    /\ "objType" \in DOMAIN rep =>
           /\ Len(rep.objType) <= 1
           /\ \A j \in 1..Len(rep.objType) : rep.objType[j].first # "xyz.svc.B"
    /\ "vEndpoints" \in DOMAIN rep =>
           /\ Len(rep.vEndpoints.value) <= 1
           /\ \A j \in 1..Len(rep.vEndpoints.value) :
                  rep.vEndpoints.value[j] = <<"e", "1">>
    /\ "dbusError" \in DOMAIN rep =>
           rep.dbusError \in {nullptr, ErrNotAllowed}

\* Every reply logged so far is one of the pair's replies.
PairReplies ==
    \A r \in DOMAIN req : \A k \in 1..Len(replies[r]) :
        PairReply(replies[r][k].reply)

PairNext ==
    \/ \E r \in DOMAIN req : processHardwareIsolationReq(r)
    \/ \E r \in DOMAIN req : GetSubTreePathsHandler(r) /\ PairReplies'
    \/ \E r \in DOMAIN req : GetObjectHandler(r) /\ PairReplies'
    \/ \E r \in DOMAIN req : CreateHandler(r) /\ PairReplies'
    \/ \E r \in DOMAIN req : EndpointsHandler(r) /\ PairReplies'
    \/ \E r \in DOMAIN req : DeleteHandler(r) /\ PairReplies'

PairSpec == PairInit /\ [][PairNext]_vars

\* getHwIsolationStatus

\* Bounds of the status model (not program constants).
MaxEventEndpoints == 2
MaxAssociations == 2

\* sdbusplus::message::object_path::parent_path: the text before the last
\* '/', "/" when that is nothing.
parent_path(path) ==
    IF Len(path) <= 1 THEN <<"">> ELSE SubSeq(path, 1, Len(path) - 1)

\* A JSON object is a function from its keys; obj[key] = v of nlohmann::json.
emptyObject == [k \in {} |-> 0]
setKey(obj, key, v) ==
    [k \in DOMAIN obj \cup {key} |-> IF k = key THEN v ELSE obj[k]]

\* jsonValue["/Status/Conditions/0/<key>"_json_pointer] = v
setConditionField(jsonValue, key, v) ==
    [jsonValue EXCEPT !.Status =
        setKey(@, "Conditions",
               [@.Conditions EXCEPT ![1] = setKey(@, key, v)])]

SeverityCritical == "xyz.openbmc_project.Logging.Event.SeverityLevel.Critical"
SeverityWarning == "xyz.openbmc_project.Logging.Event.SeverityLevel.Warning"
SeverityUnknown == "xyz.openbmc_project.Logging.Event.SeverityLevel.Unknown"
SeverityOk == "xyz.openbmc_project.Logging.Event.SeverityLevel.Ok"
SeverityValues == {SeverityCritical, SeverityWarning, SeverityUnknown,
                   SeverityOk,
                   "xyz.openbmc_project.Logging.Event.SeverityLevel.Error"}
HardwareIsolationReasonId == "OpenBMC.0.2.HardwareIsolationReason"
LoggingEventIface == "xyz.openbmc_project.Logging.Event"

\* What the bus can answer to a status render.
ResourcePaths == {<<"inventory", "system", "cpu0">>}
EventPaths == {<<"logging", "hw_isolation_status", "1">>,
               <<"logging", "hw_isolation_status", "2">>,
               <<"logging", "entry", "3">>}
EventOwnerEntries == {[first |-> s, second |-> <<LoggingEventIface>>] :
                          s \in ServiceNames \cup {""}}
ErrorLogPaths == {<<"logging", "entry", "7">>, <<"logging", "entry", "8">>}
AssociationEntries ==
    {<<"error_log", "event", p>> : p \in ErrorLogPaths} \cup
    {<<"isolated_hw", "isolated_hw_entry", <<"inventory", "system", "cpu0">>>>}

\* A property value, std::variant<std::string, uint64_t,
\* AssociationsValType>: the alternative it holds and the value of that
\* alternative (the fields of the other alternatives are unused).
StringVal(s) ==
    [type |-> "string", string |-> s, uint64 |-> 0, associations |-> << >>]
Uint64Val(n) ==
    [type |-> "uint64", string |-> "", uint64 |-> n, associations |-> << >>]
AssociationsVal(a) ==
    [type |-> "associations", string |-> "", uint64 |-> 0, associations |-> a]
AssociationsValues ==
    {AssociationsVal(a) :
         a \in SeqUpTo(AssociationEntries, MaxAssociations)}
        \cup {StringVal("none")}
MessageValues == {StringVal("overheat"), Uint64Val(7)}
SeverityPropValues ==
    {StringVal(s) : s \in SeverityValues} \cup {Uint64Val(2)}
TimestampValues == {Uint64Val(0), StringVal("now")}
ResolutionValues == {StringVal("replace")}

\* The property names in the order of the flat_map (ascending keys) and the
\* values each can have.
PropertyNames ==
    <<"Associations", "Message", "Resolution", "Severity", "Timestamp">>
PropertyValues ==
    <<AssociationsValues, MessageValues, ResolutionValues,
      SeverityPropValues, TimestampValues>>

\* The property maps whose keys are among PropertyNames[n..], as the
\* sequences of (name, value) pairs in key order.
RECURSIVE PropertyMapsFrom(_)
PropertyMapsFrom(n) ==
    IF n > Len(PropertyNames) THEN {<< >>}
    ELSE LET rest == PropertyMapsFrom(n + 1)
         IN rest \cup
            {<<[first |-> PropertyNames[n], second |-> v]>> \o m :
                 v \in PropertyValues[n], m \in rest}
PropertyMaps == PropertyMapsFrom(1)

\* The entries the registry can hold for HardwareIsolationReason.
RegistryEntries == {defaultRegistry, <<[message |-> <<"Isolated">>]>>, << >>}

EventLogReplies ==
    {[ec |-> e, vEndpoints |-> [holds |-> TRUE, value |-> << >>]] :
         e \in Failures} \cup
    {[ec |-> 0, vEndpoints |-> [holds |-> FALSE, value |-> << >>]]} \cup
    {[ec |-> 0, vEndpoints |-> [holds |-> TRUE, value |-> v]] :
         v \in SeqUpTo(EventPaths, MaxEventEndpoints)}
EventGetObjectReplies ==
    {[ec |-> e, objType |-> << >>] : e \in Failures} \cup
    {[ec |-> 0, objType |-> o] : o \in SeqUpTo(EventOwnerEntries, MaxOwners)}
GetAllReplies ==
    {[ec |-> e, properties |-> << >>] : e \in Failures} \cup
    {[ec |-> 0, properties |-> p] : p \in PropertyMaps}

eventLogCall(resourceObjPath) ==
    Call(ObjectMapperService, Append(resourceObjPath, "event_log"),
         "org.freedesktop.DBus.Properties", "Get",
         <<"xyz.openbmc_project.Association", "endpoints">>)

\* eventLogReadFailure without the test for EBADR.
eventLogReadFailureNoEbadr(ec, vEndpoints) ==
    IF ec # 0
    THEN [return |-> TRUE, messages |-> <<internalError>>]
    ELSE IF get_if(vEndpoints) = << >>
    THEN [return |-> TRUE, messages |-> <<internalError>>]
    ELSE [return |-> FALSE, messages |-> << >>]

\* The error branches of the event_log handler: whether the handler
\* returns before it scans the endpoints, and the messages it adds then.
eventLogReadFailure(ec, vEndpoints) ==
    IF ec # 0
    THEN [return |-> TRUE,
          messages |-> IF ec = EBADR THEN << >> ELSE <<internalError>>]
    ELSE IF get_if(vEndpoints) = << >>
    THEN [return |-> TRUE, messages |-> <<internalError>>]
    ELSE [return |-> FALSE, messages |-> << >>]

\* findHwStatusEventObj without the break: the last matching endpoint.
RECURSIVE findHwStatusEventObjNoBreak(_)
findHwStatusEventObjNoBreak(endpoints) ==
    IF endpoints = << >>
    THEN [found |-> FALSE, hwStatusEventObj |-> emptyPath]
    ELSE LET rest == findHwStatusEventObjNoBreak(Tail(endpoints))
         IN IF rest.found THEN rest
            ELSE IF filename(parent_path(Head(endpoints)))
                        = "hw_isolation_status"
            THEN [found |-> TRUE, hwStatusEventObj |-> Head(endpoints)]
            ELSE rest

\* The loop over the endpoints: found and hwStatusEventObj, the first
\* endpoint whose parent is named hw_isolation_status.
RECURSIVE findHwStatusEventObj(_)
findHwStatusEventObj(endpoints) ==
    IF endpoints = << >>
    THEN [found |-> FALSE, hwStatusEventObj |-> emptyPath]
    ELSE IF filename(parent_path(Head(endpoints))) = "hw_isolation_status"
    THEN [found |-> TRUE, hwStatusEventObj |-> Head(endpoints)]
    ELSE findHwStatusEventObj(Tail(endpoints))

eventGetObjectCall(hwStatusEventObj) ==
    Call(ObjectMapperService, ObjectMapperPath, ObjectMapperService,
         "GetObject", <<hwStatusEventObj, <<LoggingEventIface>>>>)

\* The checks of the status GetObject handler made before objType[0].
eventOwnerLookupFailed(ec, objType) == ec # 0 \/ Len(objType) > 1

\* getAllCall with the method of deisolateResource's last call.
getAllCallDelete(service, hwStatusEventObj) ==
    Call(service, hwStatusEventObj, "xyz.openbmc_project.Object.Delete",
         "Delete", << >>)

getAllCall(service, hwStatusEventObj) ==
    Call(service, hwStatusEventObj, "org.freedesktop.DBus.Properties",
         "GetAll", <<"">>)

\* The fold of the GetAll handler works on the response: st.jsonValue and
\* st.messages; st.return is set when the handler has returned.

\* setSeverity without the Unknown level.
setSeverityNoUnknown(st, severityVal) ==
    IF severityVal = SeverityCritical
    THEN [st EXCEPT !.jsonValue = setConditionField(@, "Severity", "Critical")]
    ELSE IF severityVal = SeverityWarning
    THEN [st EXCEPT !.jsonValue = setConditionField(@, "Severity", "Warning")]
    ELSE IF severityVal = SeverityOk
    THEN [st EXCEPT !.jsonValue = setConditionField(@, "Severity", "OK")]
    ELSE [st EXCEPT !.messages = Append(@, internalError), !.return = TRUE]

\* setSeverity: writes the severity at /Status/Conditions/0/Severity, or
\* adds internalError and returns false.
setSeverity(st, severityVal) ==
    IF severityVal = SeverityCritical
    THEN [st EXCEPT !.jsonValue = setConditionField(@, "Severity", "Critical")]
    ELSE IF severityVal = SeverityWarning \/ severityVal = SeverityUnknown
    THEN [st EXCEPT !.jsonValue = setConditionField(@, "Severity", "Warning")]
    ELSE IF severityVal = SeverityOk
    THEN [st EXCEPT !.jsonValue = setConditionField(@, "Severity", "OK")]
    ELSE [st EXCEPT !.messages = Append(@, internalError), !.return = TRUE]

\* error_log_utils::setErrorLogUri: the reference to the log entry of
\* errPath is written at /Status/Conditions/0/LogEntry.
logEntryUri(errPath) ==
    <<"redfish", "v1", "Systems", "system", "LogServices", "EventLog",
      "Entries", filename(errPath)>>
setErrorLogUri(st, errPath) ==
    [st EXCEPT !.jsonValue =
        setConditionField(@, "LogEntry",
                          [k \in {"@odata.id"} |-> logEntryUri(errPath)])]

\* foldAssociations with a break after the first error_log association.
RECURSIVE foldAssociationsFirstMatch(_, _)
foldAssociationsFirstMatch(st, associations) ==
    IF associations = << >> THEN st
    ELSE IF Head(associations)[1] = "error_log"
    THEN setErrorLogUri(st, Head(associations)[3])
    ELSE foldAssociationsFirstMatch(st, Tail(associations))

\* The loop over the associations of the Associations property.
RECURSIVE foldAssociations(_, _)
foldAssociations(st, associations) ==
    IF associations = << >> THEN st
    ELSE foldAssociations(IF Head(associations)[1] = "error_log"
                          THEN setErrorLogUri(st, Head(associations)[3])
                          ELSE st,
                          Tail(associations))

\* crow::utility::getDateTime: the date-time text of an epoch time.
getDateTime(timestamp) == <<"date-time", timestamp>>

\* argIndexOf with i++ in place of ++i.
argIndexOfPostIncrement(i) == <<"%0", "%1", "%2">>[i]

\* "%" + std::to_string(i)
argIndexOf(i) == <<"%1", "%2", "%3">>[i]

\* std::string::find: the first position of argIndex in message, 0 for npos.
find(message, argIndex) ==
    LET at == {p \in 1..Len(message) : message[p] = argIndex}
    IN IF at = {} THEN 0
       ELSE CHOOSE p \in at : \A q \in at : p <= q

\* std::string::replace of the piece at argPos.
replace(message, argPos, messageArg) ==
    [message EXCEPT ![argPos] = messageArg]

\* The loop over messageArgs that fills the template, i arguments done.
RECURSIVE fillMessage(_, _, _)
fillMessage(message, messageArgs, i) ==
    IF messageArgs = << >> THEN message
    ELSE LET argPos == find(message, argIndexOf(i + 1))
         IN fillMessage(IF argPos # 0
                        THEN replace(message, argPos, Head(messageArgs))
                        ELSE message,
                        Tail(messageArgs), i + 1)

\* foldProperty with a property of another name taken as an error.
foldPropertyUnknownIsError(st, property, msgReg) ==
    LET internal == [st EXCEPT !.messages = Append(@, internalError),
                               !.return = TRUE]
        value == property.second
        type == property.second.type
    IN IF property.first = "Associations"
       THEN IF type # "associations" THEN internal
            ELSE foldAssociations(st, value.associations)
       ELSE IF property.first = "Timestamp"
       THEN IF type # "uint64" THEN internal
            ELSE [st EXCEPT !.jsonValue =
                     setConditionField(@, "Timestamp",
                                       getDateTime(value.uint64))]
       ELSE IF property.first = "Message"
       THEN IF type # "string" THEN internal
            ELSE IF msgReg = << >> THEN internal
            ELSE LET messageArgs == <<value.string>>
                     message == fillMessage(msgReg[1].message, messageArgs, 0)
                 IN [st EXCEPT !.jsonValue =
                        setConditionField(
                            setConditionField(
                                setConditionField(@, "Message", message),
                                "MessageArgs", messageArgs),
                            "MessageId", HardwareIsolationReasonId)]
       ELSE IF property.first = "Severity"
       THEN IF type # "string" THEN internal
            ELSE setSeverity(st, value.string)
       ELSE internal

\* One iteration of the loop over the properties.
foldProperty(st, property, msgReg) ==
    LET internal == [st EXCEPT !.messages = Append(@, internalError),
                               !.return = TRUE]
        value == property.second
        type == property.second.type
    IN IF property.first = "Associations"
       THEN IF type # "associations" THEN internal
            ELSE foldAssociations(st, value.associations)
       ELSE IF property.first = "Timestamp"
       THEN IF type # "uint64" THEN internal
            ELSE [st EXCEPT !.jsonValue =
                     setConditionField(@, "Timestamp",
                                       getDateTime(value.uint64))]
       ELSE IF property.first = "Message"
       THEN IF type # "string" THEN internal
            ELSE IF msgReg = << >> THEN internal
            ELSE LET messageArgs == <<value.string>>
                     message == fillMessage(msgReg[1].message, messageArgs, 0)
                 IN [st EXCEPT !.jsonValue =
                        setConditionField(
                            setConditionField(
                                setConditionField(@, "Message", message),
                                "MessageArgs", messageArgs),
                            "MessageId", HardwareIsolationReasonId)]
       ELSE IF property.first = "Severity"
       THEN IF type # "string" THEN internal
            ELSE setSeverity(st, value.string)
       ELSE st

\* foldProperties with the loop going on after a failed property.
RECURSIVE foldPropertiesNoReturn(_, _, _)
foldPropertiesNoReturn(st, properties, msgReg) ==
    IF properties = << >> THEN st
    ELSE foldPropertiesNoReturn(foldProperty(st, Head(properties), msgReg),
                                Tail(properties), msgReg)

\* The loop over the properties, left by the first return.
RECURSIVE foldProperties(_, _, _)
foldProperties(st, properties, msgReg) ==
    IF properties = << >> \/ st.return THEN st
    ELSE foldProperties(foldProperty(st, Head(properties), msgReg),
                        Tail(properties), msgReg)

\* getAllHandlerResult giving back the Status block of the caller when the
\* fold has failed.
getAllHandlerResultRollback(response, ec, properties, msgReg) ==
    IF ec # 0
    THEN [response EXCEPT !.messages = Append(@, internalError)]
    ELSE LET disabled ==
                 setKey(setKey(response.jsonValue.Status, "State",
                               "Disabled"),
                        "Conditions", <<emptyObject>>)
             st == foldProperties(
                       [jsonValue |-> [response.jsonValue EXCEPT
                                           !.Status = disabled],
                        messages |-> response.messages,
                        return |-> FALSE],
                       properties, msgReg)
         IN [messages |-> st.messages,
             jsonValue |-> IF st.return THEN response.jsonValue
                           ELSE st.jsonValue]

\* getAllHandlerResult with State written after the fold, which a return
\* in the fold skips.
getAllHandlerResultStateLast(response, ec, properties, msgReg) ==
    IF ec # 0
    THEN [response EXCEPT !.messages = Append(@, internalError)]
    ELSE LET conditions ==
                 setKey(response.jsonValue.Status, "Conditions",
                        <<emptyObject>>)
             st == foldProperties(
                       [jsonValue |-> [response.jsonValue EXCEPT
                                           !.Status = conditions],
                        messages |-> response.messages,
                        return |-> FALSE],
                       properties, msgReg)
         IN [messages |-> st.messages,
             jsonValue |-> IF st.return THEN st.jsonValue
                           ELSE [st.jsonValue EXCEPT
                                     !.Status.State = "Disabled"]]

\* getAllHandlerResult without the test of ec.
getAllHandlerResultNoEc(response, ec, properties, msgReg) ==
    LET disabled ==
            setKey(setKey(response.jsonValue.Status, "State", "Disabled"),
                   "Conditions", <<emptyObject>>)
        st == foldProperties(
                  [jsonValue |-> [response.jsonValue EXCEPT
                                      !.Status = disabled],
                   messages |-> response.messages,
                   return |-> FALSE],
                  properties, msgReg)
    IN [messages |-> st.messages, jsonValue |-> st.jsonValue]

\* The GetAll handler on the response: State is set to Disabled, Conditions
\* to an array of one empty object, then the properties are folded.
getAllHandlerResult(response, ec, properties, msgReg) ==
    IF ec # 0
    THEN [response EXCEPT !.messages = Append(@, internalError)]
    ELSE LET disabled ==
                 setKey(setKey(response.jsonValue.Status, "State",
                               "Disabled"),
                        "Conditions", <<emptyObject>>)
             st == foldProperties(
                       [jsonValue |-> [response.jsonValue EXCEPT
                                           !.Status = disabled],
                        messages |-> response.messages,
                        return |-> FALSE],
                       properties, msgReg)
         IN [messages |-> st.messages, jsonValue |-> st.jsonValue]

\* State machine of the status render

StatusRequests == [resourceObjPath : ResourcePaths]

StatusInit ==
    /\ req \in [{1} -> StatusRequests]
    /\ InitState({1})
    /\ registry \in RegistryEntries

\* The handler of call i runs with reply rep and leaves the response as
\* newRes, without a further call.
ReturnWith(r, i, rep, newRes) ==
    /\ replies' = [replies EXCEPT ![r] = Append(@, [call |-> i, reply |-> rep])]
    /\ pending' = [pending EXCEPT ![r] = @ \ {i}]
    /\ res' = [res EXCEPT ![r] = newRes]
    /\ UNCHANGED <<req, pc, calls, closure, crashed, registry>>

\* getHwIsolationStatus up to its return: issues the event_log read.
getHwIsolationStatus(r) ==
    /\ ~crashed
    /\ pc[r] = "entry"
    /\ Issue(r, eventLogCall(req[r].resourceObjPath))
    /\ pc' = [pc EXCEPT ![r] = "async"]
    /\ UNCHANGED <<req, replies, closure, res, crashed, registry>>

\* The handler of the event_log endpoints read.
EventLogHandler(r) ==
    /\ ~crashed
    /\ \E i \in Outstanding(r, "Get") :
       \E rep \in EventLogReplies :
         LET failure == eventLogReadFailure(rep.ec, rep.vEndpoints)
             event == findHwStatusEventObj(get_if(rep.vEndpoints)[1])
         IN IF failure.return
            THEN Return(r, i, rep, failure.messages)
            ELSE IF ~event.found
            THEN Return(r, i, rep, << >>)
            ELSE Continue(r, i, rep,
                          eventGetObjectCall(event.hwStatusEventObj),
                          [closure[r] EXCEPT
                               !.hwStatusEventObj = event.hwStatusEventObj])

\* The status GetObject handler from the read of objType[0].first on.
eventOwnerDispatch(r, i, rep, first) ==
    IF first = ""
    THEN Return(r, i, rep, <<internalError>>)
    ELSE Continue(r, i, rep, getAllCall(first, closure[r].hwStatusEventObj),
                  closure[r])

\* The handler of the status GetObject.  objType[0] of an empty objType is
\* an out-of-range read: the process aborts or the read yields some string.
EventGetObjectHandler(r) ==
    /\ ~crashed
    /\ \E i \in Outstanding(r, "GetObject") :
       \E rep \in EventGetObjectReplies :
         IF eventOwnerLookupFailed(rep.ec, rep.objType)
         THEN Return(r, i, rep, <<internalError>>)
         ELSE IF Len(rep.objType) > 0
         THEN eventOwnerDispatch(r, i, rep, rep.objType[1].first)
         ELSE \/ Abort(r, i, rep)
              \/ \E g \in GarbageServiceNames :
                     eventOwnerDispatch(r, i, rep, g)

\* The handler of GetAll.
GetAllHandler(r) ==
    /\ ~crashed
    /\ \E i \in Outstanding(r, "GetAll") :
       \E rep \in GetAllReplies :
         ReturnWith(r, i, rep,
                    getAllHandlerResult(res[r], rep.ec, rep.properties,
                                        registry))

StatusNext ==
    \/ \E r \in DOMAIN req : getHwIsolationStatus(r)
    \/ \E r \in DOMAIN req : EventLogHandler(r)
    \/ \E r \in DOMAIN req : EventGetObjectHandler(r)
    \/ \E r \in DOMAIN req : GetAllHandler(r)

StatusSpec == StatusInit /\ [][StatusNext]_vars

\* Properties

Orchestrations == DOMAIN req
Outcomes(r) == res[r].messages
\* The indices in replies[r] of the replies to calls of a method.
RepliesTo(r, method) ==
    {k \in 1..Len(replies[r]) :
         calls[r][replies[r][k].call].method = method}
ReplyAt(r, k) == replies[r][k].reply
\* The indices in calls[r] of the calls of a method.
CallsOf(r, method) == {k \in 1..Len(calls[r]) : calls[r][k].method = method}
LastSegment(path) == path[Len(path)]

\* C1: in every reachable state of an orchestration at most one outcome has
\* been written to its response, and once an outcome is written no call of
\* the chain is outstanding, so no later continuation can write another.
C1_AtMostOneOutcome ==
    \A r \in Orchestrations :
        /\ Len(Outcomes(r)) <= 1
        /\ Len(Outcomes(r)) = 1 => pending[r] = {}

\* A de-isolation chain ended with an outcome after all four calls.
C1_Witness ==
    \E r \in Orchestrations :
        Len(Outcomes(r)) = 1 /\ Len(replies[r]) = 4 /\ pending[r] = {}

\* C2: when every issued call completes, every orchestration eventually
\* has no call outstanding and exactly one outcome in its response.
C2_EventuallyOneOutcome ==
    <>(\A r \in Orchestrations :
           pc[r] = "async" /\ pending[r] = {} /\ Len(Outcomes(r)) = 1)

\* C3: when the subtree query succeeds and no returned path ends in
\* resourceId, the outcome is resourceNotFound(resourceName, resourceId) of
\* the request and GetSubTreePaths stays the only call issued.
C3_NotFoundEchoesRequest ==
    \A r \in Orchestrations : \A k \in RepliesTo(r, "GetSubTreePaths") :
        LET rep == ReplyAt(r, k)
        IN (rep.ec = 0 /\ \A j \in 1..Len(rep.objects) :
                LastSegment(rep.objects[j]) # req[r].resourceId)
           => /\ Outcomes(r) = <<resourceNotFound(req[r].resourceName,
                                                  req[r].resourceId)>>
              /\ Len(calls[r]) = 1

\* The subtree query returned two paths, none of them ending in resourceId.
C3_Witness ==
    \E r \in Orchestrations : \E k \in RepliesTo(r, "GetSubTreePaths") :
        LET rep == ReplyAt(r, k)
        IN /\ rep.ec = 0 /\ Len(rep.objects) = 2
           /\ \A j \in 1..Len(rep.objects) :
                  LastSegment(rep.objects[j]) # req[r].resourceId
           /\ Len(Outcomes(r)) = 1

\* C4: a Create call failing with NotAllowed, Unavailable or
\* TooManyResources yields propertyNotWritable("Enabled"), resourceInStandby,
\* createLimitReachedForResource; a name outside the table internalError.
C4_IsolateTable ==
    \A r \in Orchestrations : \A k \in RepliesTo(r, "Create") :
        LET rep == ReplyAt(r, k)
        IN (rep.ec # 0 /\ rep.dbusError # nullptr) =>
           /\ rep.dbusError = ErrNotAllowed =>
                  Outcomes(r) = <<propertyNotWritable("Enabled")>>
           /\ rep.dbusError = ErrUnavailable =>
                  Outcomes(r) = <<resourceInStandby>>
           /\ rep.dbusError = ErrTooManyResources =>
                  Outcomes(r) = <<createLimitReachedForResource>>
           /\ rep.dbusError \notin IsolateTable =>
                  Outcomes(r) = <<internalError>>

\* A Create call failed with NotAllowed.
C4_Witness ==
    \E r \in Orchestrations : \E k \in RepliesTo(r, "Create") :
        /\ ReplyAt(r, k).ec # 0
        /\ ReplyAt(r, k).dbusError = ErrNotAllowed
        /\ Len(Outcomes(r)) = 1

\* C5: a Create call failing with InvalidArgument yields
\* propertyValueIncorrect("@odata.id", "false").
C5_InvalidArgumentValueFalse ==
    \A r \in Orchestrations : \A k \in RepliesTo(r, "Create") :
        (ReplyAt(r, k).ec # 0 /\ ReplyAt(r, k).dbusError = ErrInvalidArgument)
        => Outcomes(r) = <<propertyValueIncorrect("@odata.id", "false")>>

\* C6: a Create call failing with IsolatedAlready yields
\* resourceAlreadyExists("@odata.id", resourceName, resourceId) with the
\* name and the id of the request.
C6_IsolatedAlreadyEchoesRequest ==
    \A r \in Orchestrations : \A k \in RepliesTo(r, "Create") :
        (ReplyAt(r, k).ec # 0 /\ ReplyAt(r, k).dbusError = ErrIsolatedAlready)
        => Outcomes(r) = <<resourceAlreadyExists("@odata.id",
                                                 req[r].resourceName,
                                                 req[r].resourceId)>>

\* The request {Processor, cpu0} was answered IsolatedAlready.
C6_Witness ==
    \E r \in Orchestrations : \E k \in RepliesTo(r, "Create") :
        /\ ReplyAt(r, k).ec # 0
        /\ ReplyAt(r, k).dbusError = ErrIsolatedAlready
        /\ req[r].resourceName = "Processor" /\ req[r].resourceId = "cpu0"
        /\ Outcomes(r) = <<resourceAlreadyExists("@odata.id", "Processor",
                                                 "cpu0")>>

\* C7: a Create call failing without any error name yields internalError.
C7_NoNameIsInternalError ==
    \A r \in Orchestrations : \A k \in RepliesTo(r, "Create") :
        (ReplyAt(r, k).ec # 0 /\ ReplyAt(r, k).dbusError = nullptr)
        => Outcomes(r) = <<internalError>>

\* A Create call failed and its reply carried no error name.
C7_Witness ==
    \E r \in Orchestrations : \E k \in RepliesTo(r, "Create") :
        /\ ReplyAt(r, k).ec # 0 /\ ReplyAt(r, k).dbusError = nullptr
        /\ Len(Outcomes(r)) = 1

\* C8: after a non-empty isolated_hw_entry endpoint list was read, exactly
\* one Delete call exists and its target is the last endpoint of the list;
\* when that Delete succeeds the outcome is success.
C8_DeleteTargetsLastEndpoint ==
    \A r \in Orchestrations : \A k \in RepliesTo(r, "Get") :
        LET rep == ReplyAt(r, k)
            endpoints == rep.vEndpoints.value
        IN (rep.ec = 0 /\ rep.vEndpoints.holds /\ Len(endpoints) > 0) =>
           /\ Cardinality(CallsOf(r, "Delete")) = 1
           /\ \A c \in CallsOf(r, "Delete") :
                  calls[r][c].path = endpoints[Len(endpoints)]
           /\ \A d \in RepliesTo(r, "Delete") :
                  ReplyAt(r, d).ec = 0 => Outcomes(r) = <<success>>

\* Three endpoints with different first and last were read and the Delete
\* call succeeded.
C8_Witness ==
    \E r \in Orchestrations : \E k \in RepliesTo(r, "Get") :
        LET endpoints == ReplyAt(r, k).vEndpoints.value
        IN /\ ReplyAt(r, k).ec = 0 /\ ReplyAt(r, k).vEndpoints.holds
           /\ Len(endpoints) = 3
           /\ endpoints[1] # endpoints[3] /\ endpoints[2] # endpoints[3]
           /\ \E d \in RepliesTo(r, "Delete") : ReplyAt(r, d).ec = 0

\* C9: after an empty isolated_hw_entry endpoint list was read the outcome
\* is internalError and no Delete call is issued.
C9_EmptyEndpointsIsInternalError ==
    \A r \in Orchestrations : \A k \in RepliesTo(r, "Get") :
        LET rep == ReplyAt(r, k)
        IN (rep.ec = 0 /\ rep.vEndpoints.holds
                /\ Len(rep.vEndpoints.value) = 0)
           => Outcomes(r) = <<internalError>> /\ CallsOf(r, "Delete") = {}

\* C10: after the owner lookup returned two or more services the outcome is
\* internalError and neither Create nor the endpoint read nor Delete is
\* issued.
C10_AmbiguousOwnerIsInternalError ==
    \A r \in Orchestrations : \A k \in RepliesTo(r, "GetObject") :
        (ReplyAt(r, k).ec = 0 /\ Len(ReplyAt(r, k).objType) >= 2)
        => /\ Outcomes(r) = <<internalError>>
           /\ CallsOf(r, "Create") = {} /\ CallsOf(r, "Get") = {}
           /\ CallsOf(r, "Delete") = {}

\* The owner lookup returned two services with different names.
C10_Witness ==
    \E r \in Orchestrations : \E k \in RepliesTo(r, "GetObject") :
        LET objType == ReplyAt(r, k).objType
        IN /\ ReplyAt(r, k).ec = 0 /\ Len(objType) >= 2
           /\ objType[1].first # "" /\ objType[1].first # objType[2].first
           /\ Len(Outcomes(r)) = 1

\* C11: after the owner lookup returned no service without a transport
\* error the outcome is internalError and no further call is issued.
C11_NoOwnerIsInternalError ==
    \A r \in Orchestrations : \A k \in RepliesTo(r, "GetObject") :
        (ReplyAt(r, k).ec = 0 /\ Len(ReplyAt(r, k).objType) = 0)
        => Outcomes(r) = <<internalError>> /\ Len(calls[r]) = 2

\* The subtree query succeeded with a path that ends in resourceId.
SubtreeResolved(r) ==
    \E k \in RepliesTo(r, "GetSubTreePaths") :
        /\ ReplyAt(r, k).ec = 0
        /\ \E j \in 1..Len(ReplyAt(r, k).objects) :
               LastSegment(ReplyAt(r, k).objects[j]) = req[r].resourceId
\* The owner lookup succeeded: one owner with a name.
OwnerLocated(r) ==
    \E k \in RepliesTo(r, "GetObject") :
        /\ ReplyAt(r, k).ec = 0
        /\ Len(ReplyAt(r, k).objType) = 1
        /\ ReplyAt(r, k).objType[1].first # ""

\* C15: the owner lookup is issued only after the subtree query succeeded
\* with a matching path; Create and the endpoint read are issued only after
\* that and after the owner lookup succeeded.
C15_StepsInOrder ==
    \A r \in Orchestrations :
        /\ CallsOf(r, "GetObject") # {} => SubtreeResolved(r)
        /\ CallsOf(r, "Create") \cup CallsOf(r, "Get") # {}
               => SubtreeResolved(r) /\ OwnerLocated(r)

\* The first path of a successful subtree reply that ends in resourceId.
ResolvedPaths(r) ==
    UNION {LET objects == ReplyAt(r, k).objects
           IN {objects[j] :
                   j \in {j \in 1..Len(objects) :
                              /\ LastSegment(objects[j]) = req[r].resourceId
                              /\ \A h \in 1..(j - 1) :
                                     LastSegment(objects[h])
                                         # req[r].resourceId}} :
               k \in RepliesTo(r, "GetSubTreePaths")}

\* C16: with a resolved path and a single owner, enabled = false gives
\* exactly one Create call for the resolved path with the Manual entry type
\* and no endpoint read or Delete; enabled = true gives the endpoint read and
\* no Create; a Create call that succeeds gives success.
C16_EnabledSelectsBranch ==
    \A r \in Orchestrations :
        OwnerLocated(r) =>
            /\ ~req[r].enabled =>
                   /\ Cardinality(CallsOf(r, "Create")) = 1
                   /\ \A c \in CallsOf(r, "Create") :
                          /\ calls[r][c].args[1] \in ResolvedPaths(r)
                          /\ calls[r][c].args[2] = ManualEntryType
                   /\ CallsOf(r, "Get") = {} /\ CallsOf(r, "Delete") = {}
                   /\ \A k \in RepliesTo(r, "Create") :
                          ReplyAt(r, k).ec = 0 => Outcomes(r) = <<success>>
            /\ req[r].enabled =>
                   /\ Cardinality(CallsOf(r, "Get")) = 1
                   /\ \A c \in CallsOf(r, "Get") :
                          calls[r][c].path[Len(calls[r][c].path)]
                              = "isolated_hw_entry"
                   /\ CallsOf(r, "Create") = {}

\* An isolate request whose Create call succeeded, the subtree reply holding
\* two paths that end in resourceId.
C16_Witness ==
    \E r \in Orchestrations :
        /\ OwnerLocated(r) /\ ~req[r].enabled
        /\ \E k \in RepliesTo(r, "Create") : ReplyAt(r, k).ec = 0
        /\ \E k \in RepliesTo(r, "GetSubTreePaths") :
               /\ Len(ReplyAt(r, k).objects) = 2
               /\ ReplyAt(r, k).objects[1] # ReplyAt(r, k).objects[2]
               /\ \A j \in 1..2 :
                      LastSegment(ReplyAt(r, k).objects[j]) = req[r].resourceId

\* C17: a Delete call failing with NotAllowed yields
\* propertyNotWritable("Entry"), with Unavailable resourceInStandby, with any
\* other name or without a name internalError.
C17_DeisolateTable ==
    \A r \in Orchestrations : \A k \in RepliesTo(r, "Delete") :
        LET rep == ReplyAt(r, k)
        IN rep.ec # 0 =>
           /\ rep.dbusError = ErrNotAllowed =>
                  Outcomes(r) = <<propertyNotWritable("Entry")>>
           /\ rep.dbusError = ErrUnavailable =>
                  Outcomes(r) = <<resourceInStandby>>
           /\ rep.dbusError \notin {ErrNotAllowed, ErrUnavailable} =>
                  Outcomes(r) = <<internalError>>

\* A Delete call failed with NotAllowed.
C17_Witness ==
    \E r \in Orchestrations : \E k \in RepliesTo(r, "Delete") :
        /\ ReplyAt(r, k).ec # 0 /\ ReplyAt(r, k).dbusError = ErrNotAllowed
        /\ Len(Outcomes(r)) = 1

\* C18: when the isolated_hw_entry endpoints read fails or its value is not
\* a list of strings, the outcome is internalError and no Delete call is
\* issued.
C18_EndpointsReadFailure ==
    \A r \in Orchestrations : \A k \in RepliesTo(r, "Get") :
        (ReplyAt(r, k).ec # 0 \/ ~ReplyAt(r, k).vEndpoints.holds)
        => Outcomes(r) = <<internalError>> /\ CallsOf(r, "Delete") = {}

\* The endpoints read failed with a transport error.
C18_Witness ==
    \E r \in Orchestrations : \E k \in RepliesTo(r, "Get") :
        ReplyAt(r, k).ec # 0 /\ Len(Outcomes(r)) = 1

\* The remote operations of an orchestration.
Methods == {"GetSubTreePaths", "GetObject", "Get", "Create", "Delete",
            "GetAll"}

\* A reply of the orchestration is a failure: a transport failure, no
\* matching object, no or several owners or an owner without a name, an
\* endpoint value that is no list or an empty endpoint list.
SomeCallFailed(r) ==
    \E k \in 1..Len(replies[r]) :
        LET rep == ReplyAt(r, k)
            method == calls[r][replies[r][k].call].method
        IN \/ rep.ec # 0
           \/ method = "GetSubTreePaths" /\ ~SubtreeResolved(r)
           \/ method = "GetObject" /\ ~OwnerLocated(r)
           \/ method = "Get"
                  /\ (~rep.vEndpoints.holds \/ rep.vEndpoints.value = << >>)

\* C19: every remote operation is issued at most once in an orchestration
\* and a failure results in exactly one outcome.
C19_NoRetryOneOutcome ==
    \A r \in Orchestrations :
        /\ \A m \in Methods : Cardinality(CallsOf(r, m)) <= 1
        /\ SomeCallFailed(r) => Len(Outcomes(r)) = 1

\* The values of the property called name in a GetAll reply (none or one).
PropertyOf(properties, name) ==
    {properties[p].second :
         p \in {p \in 1..Len(properties) : properties[p].first = name}}
Status(r) == res[r].jsonValue.Status
\* The fold of the properties reaches the Message property: Associations
\* is absent or a list of associations.
FoldReachesMessage(properties) ==
    \A a \in PropertyOf(properties, "Associations") : a.type = "associations"
\* The fold of the properties reaches the Severity property.
FoldReachesSeverity(properties) ==
    /\ FoldReachesMessage(properties)
    /\ \A m \in PropertyOf(properties, "Message") :
           m.type = "string" /\ registry # << >>

\* The JSON object has the key with the value v.
HasField(obj, key, v) == key \in DOMAIN obj /\ obj[key] = v

\* C12: after the event_log read failed with EBADR the response (Status
\* block and messages) is as the caller passed it and no further call is
\* issued.
C12_NoEventLeavesResponse ==
    \A r \in Orchestrations : \A k \in RepliesTo(r, "Get") :
        ReplyAt(r, k).ec = EBADR
        => res[r] = initialRes /\ Len(calls[r]) = 1 /\ pending[r] = {}

\* The event_log read failed with EBADR.
C12_Witness ==
    \E r \in Orchestrations : \E k \in RepliesTo(r, "Get") :
        ReplyAt(r, k).ec = EBADR /\ pending[r] = {}

\* C13: when the fold reaches a Severity string, Critical is written as
\* "Critical", Warning and Unknown as "Warning", Ok as "OK"; for any other
\* string no Severity is written, internalError is the one message and the
\* Timestamp, the property after Severity, is not folded.
C13_SeverityTable ==
    \A r \in Orchestrations : \A k \in RepliesTo(r, "GetAll") :
        LET rep == ReplyAt(r, k)
            condition == Status(r).Conditions[1]
        IN (rep.ec = 0 /\ FoldReachesSeverity(rep.properties)) =>
           \A s \in PropertyOf(rep.properties, "Severity") :
               s.type = "string" =>
                   /\ s.string = SeverityCritical =>
                          HasField(condition, "Severity", "Critical")
                   /\ s.string \in {SeverityWarning, SeverityUnknown} =>
                          HasField(condition, "Severity", "Warning")
                   /\ s.string = SeverityOk =>
                          HasField(condition, "Severity", "OK")
                   /\ s.string \notin {SeverityCritical, SeverityWarning,
                                       SeverityUnknown, SeverityOk} =>
                          /\ "Severity" \notin DOMAIN condition
                          /\ "Timestamp" \notin DOMAIN condition
                          /\ Outcomes(r) = <<internalError>>

\* The event had Severity Unknown and the condition got "Warning".
C13_Witness ==
    \E r \in Orchestrations : \E k \in RepliesTo(r, "GetAll") :
        /\ ReplyAt(r, k).ec = 0
        /\ FoldReachesSeverity(ReplyAt(r, k).properties)
        /\ \E s \in PropertyOf(ReplyAt(r, k).properties, "Severity") :
               s.type = "string" /\ s.string = SeverityUnknown
        /\ HasField(Status(r).Conditions[1], "Severity", "Warning")

\* C14: for a Message string m that the fold reaches, with a registry
\* entry, the condition's Message is the template with %1 replaced by m,
\* its MessageArgs is <<m>> and its MessageId the HardwareIsolationReason id.
C14_MessageFromTemplate ==
    \A r \in Orchestrations : \A k \in RepliesTo(r, "GetAll") :
        LET rep == ReplyAt(r, k)
            condition == Status(r).Conditions[1]
        IN (rep.ec = 0 /\ FoldReachesMessage(rep.properties)
                /\ registry # << >>) =>
           \A m \in PropertyOf(rep.properties, "Message") :
               m.type = "string" =>
                   LET template == registry[1].message
                   IN /\ HasField(condition, "Message",
                                  [p \in 1..Len(template) |->
                                       IF template[p] = "%1" THEN m.string
                                       ELSE template[p]])
                      /\ HasField(condition, "MessageArgs", <<m.string>>)
                      /\ HasField(condition, "MessageId",
                                  "OpenBMC.0.2.HardwareIsolationReason")

\* The template "Reason: %1 detected" was filled with "overheat".
C14_Witness ==
    \E r \in Orchestrations : \E k \in RepliesTo(r, "GetAll") :
        /\ ReplyAt(r, k).ec = 0
        /\ registry = <<[message |-> <<"Reason: ", "%1", " detected">>]>>
        /\ \E m \in PropertyOf(ReplyAt(r, k).properties, "Message") :
               m.type = "string" /\ m.string = "overheat"
        /\ HasField(Status(r).Conditions[1], "Message",
                    <<"Reason: ", "overheat", " detected">>)

\* The orchestration is under way: one of its calls is outstanding.
Unfinished(r) == pending[r] # {}

\* C20: of two concurrent orchestrations each behaves as when run alone:
\* its response holds only outcomes of its own request, and while it is
\* unfinished it can still go on to its final outcome (alone, the process
\* never stops under an unfinished orchestration).
C20_ConcurrentAsAlone ==
    \A r \in Orchestrations :
        /\ Unfinished(r) => ~crashed
        /\ Len(Outcomes(r)) <= 1
        /\ \A k \in 1..Len(Outcomes(r)) :
               Outcomes(r)[k].MessageId
                   \in {"ResourceNotFound", "ResourceAlreadyExists"}
               => /\ req[r].resourceName
                      \in {Outcomes(r)[k].MessageArgs[a] :
                               a \in 1..Len(Outcomes(r)[k].MessageArgs)}
                  /\ \A q \in Orchestrations \ {r} :
                         req[q].resourceName
                             \notin {Outcomes(r)[k].MessageArgs[a] :
                                 a \in 1..Len(Outcomes(r)[k].MessageArgs)}

\* C21: an orchestration has at most one call outstanding; every call but
\* the first is issued after the reply to the call before it; an isolate
\* chain has at most three calls and a de-isolate chain at most four.
C21_OneCallOutstanding ==
    \A r \in Orchestrations :
        /\ Cardinality(pending[r]) <= 1
        /\ \A c \in 2..Len(calls[r]) :
               \E k \in 1..Len(replies[r]) : replies[r][k].call = c - 1
        /\ Len(calls[r]) <= IF req[r].enabled THEN 4 ELSE 3

\* A de-isolate chain whose fourth call is outstanding, and nothing else.
C21_Witness ==
    \E r \in Orchestrations :
        req[r].enabled /\ Len(calls[r]) = 4 /\ pending[r] = {4}

\* The handler of an outstanding call of r runs in this step.
Completes(r) ==
    \E i \in pending[r] :
        /\ i \notin pending'[r]
        /\ Len(replies'[r]) = Len(replies[r]) + 1
        /\ replies'[r][Len(replies'[r])].call = i

\* C22: while a call of an orchestration is outstanding its response holds
\* no outcome, and the only step that writes to the response or issues a
\* call is the completion of that call: there is no timeout or
\* cancellation step.
C22_StalledWithoutOutcome ==
    /\ [](\A r \in Orchestrations :
              pending[r] # {} => Outcomes(r) = << >>)
    /\ [][\A r \in Orchestrations :
              (pending[r] # {} /\ (res'[r] # res[r] \/ calls'[r] # calls[r]))
              => Completes(r)]_vars

\* The third call of a chain is outstanding and no outcome is written.
C22_Witness ==
    \E r \in Orchestrations :
        /\ Len(replies[r]) = 2 /\ pending[r] = {3}
        /\ Outcomes(r) = << >>

\* The name of the parent of an object path, "" when it has none.
ParentName(path) == IF Len(path) >= 2 THEN path[Len(path) - 1] ELSE ""
\* The positions of the endpoints under hw_isolation_status.
StatusEndpoints(endpoints) ==
    {j \in 1..Len(endpoints) :
         ParentName(endpoints[j]) = "hw_isolation_status"}

\* C23: after the event_log read succeeded with no endpoint under
\* hw_isolation_status (the empty list included) the response is as the
\* caller passed it and no further call is issued; with several such
\* endpoints the owner lookup and the property fetch are for the first.
C23_FirstStatusEndpointOnly ==
    \A r \in Orchestrations : \A k \in RepliesTo(r, "Get") :
        LET rep == ReplyAt(r, k)
            endpoints == rep.vEndpoints.value
            matching == StatusEndpoints(endpoints)
        IN (rep.ec = 0 /\ rep.vEndpoints.holds) =>
           /\ matching = {} =>
                  /\ res[r] = initialRes
                  /\ Len(calls[r]) = 1 /\ pending[r] = {}
           /\ matching # {} =>
                  LET first == endpoints[CHOOSE j \in matching :
                                             \A h \in matching : j <= h]
                  IN /\ Cardinality(CallsOf(r, "GetObject")) = 1
                     /\ \A c \in CallsOf(r, "GetObject") :
                            calls[r][c].args[1] = first
                     /\ \A c \in CallsOf(r, "GetAll") :
                            calls[r][c].path = first

\* Two different endpoints under hw_isolation_status were read and the
\* properties of an event were fetched.
C23_Witness ==
    \E r \in Orchestrations : \E k \in RepliesTo(r, "Get") :
        LET endpoints == ReplyAt(r, k).vEndpoints.value
        IN /\ ReplyAt(r, k).ec = 0 /\ ReplyAt(r, k).vEndpoints.holds
           /\ StatusEndpoints(endpoints) = {1, 2}
           /\ endpoints[1] # endpoints[2]
           /\ CallsOf(r, "GetAll") # {}

\* The render of r stopped after n calls with internalError and the Status
\* block as the caller passed it.
StoppedWithInternalError(r, n) ==
    /\ Outcomes(r) = <<internalError>>
    /\ res[r].jsonValue = initialRes.jsonValue
    /\ Len(calls[r]) = n /\ pending[r] = {}

\* C24: a failure other than EBADR of the event_log read, and any failure
\* of the owner lookup or of the property fetch, gives internalError, no
\* status condition and no further call.
C24_TransportFailureStops ==
    \A r \in Orchestrations :
        /\ \A k \in RepliesTo(r, "Get") :
               ReplyAt(r, k).ec \notin {0, EBADR}
               => StoppedWithInternalError(r, 1)
        /\ \A k \in RepliesTo(r, "GetObject") :
               ReplyAt(r, k).ec # 0 => StoppedWithInternalError(r, 2)
        /\ \A k \in RepliesTo(r, "GetAll") :
               ReplyAt(r, k).ec # 0 => StoppedWithInternalError(r, 3)

\* The property fetch failed, here with the code that the event_log read
\* tolerates.
C24_Witness ==
    \E r \in Orchestrations : \E k \in RepliesTo(r, "GetAll") :
        ReplyAt(r, k).ec = EBADR /\ Outcomes(r) = <<internalError>>

\* C25: after the owner lookup of the status event returned no service or
\* more than one, the outcome is internalError and GetAll is not issued.
C25_EventOwnerCountIsInternalError ==
    \A r \in Orchestrations : \A k \in RepliesTo(r, "GetObject") :
        (ReplyAt(r, k).ec = 0 /\ Len(ReplyAt(r, k).objType) # 1)
        => Outcomes(r) = <<internalError>> /\ CallsOf(r, "GetAll") = {}

\* The event_log read found an endpoint under hw_isolation_status.
EventFound(r) ==
    \E k \in RepliesTo(r, "Get") :
        /\ ReplyAt(r, k).ec = 0 /\ ReplyAt(r, k).vEndpoints.holds
        /\ StatusEndpoints(ReplyAt(r, k).vEndpoints.value) # {}
\* The render has run to its end: no call is outstanding.
RenderEnded(r) == pc[r] = "async" /\ pending[r] = {} /\ ~crashed

\* C26 as stated: whenever a status event was found, State is "Disabled" at
\* the end of the render, whatever the owner lookup and the property fetch
\* returned.
C26_DisabledWheneverEvent ==
    \A r \in Orchestrations :
        (EventFound(r) /\ RenderEnded(r)) => Status(r).State = "Disabled"

\* C26 amended: whenever the property fetch of the status event succeeded,
\* State is "Disabled", whatever properties it returned; as long as no
\* property fetch has succeeded (no event, an owner lookup that ended the
\* render, a failed fetch) the Status block is as the caller passed it.
C26_DisabledAfterFetch ==
    \A r \in Orchestrations :
        /\ \A k \in RepliesTo(r, "GetAll") :
               ReplyAt(r, k).ec = 0 => Status(r).State = "Disabled"
        /\ (\A k \in RepliesTo(r, "GetAll") : ReplyAt(r, k).ec # 0)
               => Status(r) = initialRes.jsonValue.Status

\* The property fetch succeeded, the fold stopped at a property with
\* internalError and State is "Disabled".
C26_Witness ==
    \E r \in Orchestrations : \E k \in RepliesTo(r, "GetAll") :
        /\ ReplyAt(r, k).ec = 0
        /\ Outcomes(r) = <<internalError>>
        /\ Status(r).State = "Disabled"

\* The type the fold expects of a property, "" when it does not read it.
ExpectedType(name) ==
    IF name = "Associations" THEN "associations"
    ELSE IF name = "Timestamp" THEN "uint64"
    ELSE IF name \in {"Message", "Severity"} THEN "string"
    ELSE ""
\* The keys of the condition that the fold of a property writes.
ConditionKeys(name) ==
    IF name = "Associations" THEN {"LogEntry"}
    ELSE IF name = "Timestamp" THEN {"Timestamp"}
    ELSE IF name = "Message" THEN {"Message", "MessageArgs", "MessageId"}
    ELSE IF name = "Severity" THEN {"Severity"}
    ELSE {}
\* The positions of the properties whose value is not of the expected type.
Malformed(properties) ==
    {p \in 1..Len(properties) :
         /\ ExpectedType(properties[p].first) # ""
         /\ properties[p].second.type # ExpectedType(properties[p].first)}

\* C27: when a fetched Associations, Timestamp, Message or Severity is not
\* of the expected type, internalError is the one message of the response
\* and neither that property nor any property after it has written to the
\* condition.
C27_MalformedPropertyStopsFold ==
    \A r \in Orchestrations : \A k \in RepliesTo(r, "GetAll") :
        LET properties == ReplyAt(r, k).properties
            bad == Malformed(properties)
        IN (ReplyAt(r, k).ec = 0 /\ bad # {}) =>
           /\ Outcomes(r) = <<internalError>>
           /\ \A p \in 1..Len(properties) :
                  (\E b \in bad : b <= p) =>
                      ConditionKeys(properties[p].first)
                          \cap DOMAIN Status(r).Conditions[1] = {}

\* A Message that is no string came after Associations with an error_log
\* entry and before a Severity and a Timestamp of the expected types: the
\* condition holds the LogEntry and nothing of the later properties.
C27_Witness ==
    \E r \in Orchestrations : \E k \in RepliesTo(r, "GetAll") :
        LET properties == ReplyAt(r, k).properties
        IN /\ ReplyAt(r, k).ec = 0
           /\ Len(properties) = 4
           /\ Malformed(properties) = {2}
           /\ properties[2].first = "Message"
           /\ DOMAIN Status(r).Conditions[1] = {"LogEntry"}
           /\ Outcomes(r) = <<internalError>>

\* The positions of the error_log entries of a list of associations.
ErrorLogs(associations) ==
    {j \in 1..Len(associations) : associations[j][1] = "error_log"}

\* C28: after the Associations of the event were folded, the LogEntry of
\* condition 0 refers to the last entry whose relation is error_log; when
\* no entry has that relation, the condition has no LogEntry.
C28_LastErrorLogWins ==
    \A r \in Orchestrations : \A k \in RepliesTo(r, "GetAll") :
        ReplyAt(r, k).ec = 0 =>
        \A a \in PropertyOf(ReplyAt(r, k).properties, "Associations") :
            a.type = "associations" =>
            LET matching == ErrorLogs(a.associations)
                condition == Status(r).Conditions[1]
            IN IF matching = {}
               THEN "LogEntry" \notin DOMAIN condition
               ELSE LET last == CHOOSE j \in matching :
                                    \A h \in matching : h <= j
                    IN HasField(condition, "LogEntry",
                                [key \in {"@odata.id"} |->
                                     logEntryUri(a.associations[last][3])])

\* The event had two error_log associations to different log entries and
\* the condition refers to the second.
C28_Witness ==
    \E r \in Orchestrations : \E k \in RepliesTo(r, "GetAll") :
        /\ ReplyAt(r, k).ec = 0
        /\ \E a \in PropertyOf(ReplyAt(r, k).properties, "Associations") :
               /\ a.type = "associations"
               /\ ErrorLogs(a.associations) = {1, 2}
               /\ a.associations[1][3] # a.associations[2][3]
               /\ HasField(Status(r).Conditions[1], "LogEntry",
                           [key \in {"@odata.id"} |->
                                logEntryUri(a.associations[2][3])])

\* C29: the owner lookup of a status render is issued only after an
\* endpoint under hw_isolation_status was found, the property fetch only
\* after the owner lookup returned a single owner, and a condition is in
\* the Status block only after the property fetch succeeded.
C29_StatusStepsInOrder ==
    \A r \in Orchestrations :
        /\ CallsOf(r, "GetObject") # {} => EventFound(r)
        /\ CallsOf(r, "GetAll") # {} => EventFound(r) /\ OwnerLocated(r)
        /\ "Conditions" \in DOMAIN Status(r) =>
               \E k \in RepliesTo(r, "GetAll") : ReplyAt(r, k).ec = 0

\* C30: the interface list of the subtree query is the request's list
\* followed by the Object.Enable interface, and no step changes the
\* request's list.
C30_InterfacesPlusMarker ==
    /\ [](\A r \in Orchestrations : \A c \in CallsOf(r, "GetSubTreePaths") :
              calls[r][c].args[3]
                  = req[r].interfaces
                        \o <<"xyz.openbmc_project.Object.Enable">>)
    /\ [][\A r \in Orchestrations :
              req'[r].interfaces = req[r].interfaces]_vars

\* The subtree query of a request with a list of two interfaces was sent
\* and answered.
C30_Witness ==
    \E r \in Orchestrations :
        /\ Len(req[r].interfaces) = 2
        /\ CallsOf(r, "GetSubTreePaths") # {}
        /\ RepliesTo(r, "GetSubTreePaths") # {}

\* C31: after the subtree query or the owner lookup failed with a transport
\* error the outcome is internalError and the failed call stays the last
\* call of the orchestration.
C31_LookupFailureIsInternalError ==
    \A r \in Orchestrations :
        /\ \A k \in RepliesTo(r, "GetSubTreePaths") :
               ReplyAt(r, k).ec # 0
               => Outcomes(r) = <<internalError>> /\ Len(calls[r]) = 1
        /\ \A k \in RepliesTo(r, "GetObject") :
               ReplyAt(r, k).ec # 0
               => Outcomes(r) = <<internalError>> /\ Len(calls[r]) = 2

\* The subtree query failed with a transport error.
C31_Witness ==
    \E r \in Orchestrations : \E k \in RepliesTo(r, "GetSubTreePaths") :
        ReplyAt(r, k).ec # 0 /\ Len(Outcomes(r)) = 1 /\ pending[r] = {}

\* C33: after the owner lookup returned one service whose name is empty the
\* outcome is internalError and neither Create nor the endpoint read is
\* issued.
C33_EmptyOwnerNameIsInternalError ==
    \A r \in Orchestrations : \A k \in RepliesTo(r, "GetObject") :
        LET rep == ReplyAt(r, k)
        IN (rep.ec = 0 /\ Len(rep.objType) = 1 /\ rep.objType[1].first = "")
           => /\ Outcomes(r) = <<internalError>>
              /\ CallsOf(r, "Create") = {} /\ CallsOf(r, "Get") = {}

\* The owner lookup returned one service with the empty name.
C33_Witness ==
    \E r \in Orchestrations : \E k \in RepliesTo(r, "GetObject") :
        /\ ReplyAt(r, k).ec = 0 /\ Len(ReplyAt(r, k).objType) = 1
        /\ ReplyAt(r, k).objType[1].first = ""
        /\ Len(Outcomes(r)) = 1

\* The message id of the table outcome of a suffix.
TableOutcomeId(suffix) ==
    IF suffix = "InvalidArgument" THEN "PropertyValueIncorrect"
    ELSE IF suffix = "NotAllowed" THEN "PropertyNotWritable"
    ELSE IF suffix = "Unavailable" THEN "ResourceInStandby"
    ELSE IF suffix = "IsolatedAlready" THEN "ResourceAlreadyExists"
    ELSE IF suffix = "TooManyResources" THEN "CreateLimitReachedForResource"
    ELSE "InternalError"
\* The one outcome of r has the message id.
OutcomeIs(r, id) == Len(Outcomes(r)) = 1 /\ Outcomes(r)[1].MessageId = id

\* C32 as stated: a Create call to the located owner failing with an error
\* name gives the table outcome of the name's suffix, whatever the namespace
\* before it.
C32_KeyedOnSuffix ==
    \A r \in Orchestrations : \A k \in RepliesTo(r, "Create") :
        (OwnerLocated(r) /\ ReplyAt(r, k).ec # 0
             /\ ReplyAt(r, k).dbusError # nullptr)
        => OutcomeIs(r, TableOutcomeId(ErrorSuffix(ReplyAt(r, k).dbusError)))

\* C32 amended: the table outcome is given for the five whole names of the
\* table; a name that only ends like one of them gives internalError.
C32_KeyedOnWholeName ==
    \A r \in Orchestrations : \A k \in RepliesTo(r, "Create") :
        LET name == ReplyAt(r, k).dbusError
        IN (ReplyAt(r, k).ec # 0 /\ name # nullptr) =>
           /\ name \in IsolateTable
                  => OutcomeIs(r, TableOutcomeId(ErrorSuffix(name)))
           /\ name \notin IsolateTable => OutcomeIs(r, "InternalError")

\* A Create call failed with org.freedesktop.DBus.Error.NotAllowed, which
\* ends like a name of the table, and the outcome is internalError.
C32_Witness ==
    \E r \in Orchestrations : \E k \in RepliesTo(r, "Create") :
        /\ ReplyAt(r, k).ec # 0
        /\ ReplyAt(r, k).dbusError = "org.freedesktop.DBus.Error.NotAllowed"
        /\ Outcomes(r) = <<internalError>>

\* C34: an orchestration has one owner lookup, and every Create or Delete
\* call is addressed to the one service that lookup returned.
C34_CallsGoToResolvedOwner ==
    \A r \in Orchestrations :
        /\ Cardinality(CallsOf(r, "GetObject")) <= 1
        /\ \A c \in CallsOf(r, "Create") \cup CallsOf(r, "Delete") :
               \E k \in RepliesTo(r, "GetObject") :
                   /\ ReplyAt(r, k).ec = 0
                   /\ Len(ReplyAt(r, k).objType) = 1
                   /\ ReplyAt(r, k).objType[1].first = calls[r][c].service

\* C35: the path handed to the isolate step (the argument of Create) or to
\* the de-isolate step (the object of the isolated_hw_entry read) is the
\* first path of the subtree reply that ends in resourceId, also when later
\* paths end in it too.
C35_FirstMatchingPath ==
    \A r \in Orchestrations : \A k \in RepliesTo(r, "GetSubTreePaths") :
        LET objects == ReplyAt(r, k).objects
            matching == {j \in 1..Len(objects) :
                             LastSegment(objects[j]) = req[r].resourceId}
        IN (ReplyAt(r, k).ec = 0 /\ matching # {}) =>
           LET first == objects[CHOOSE j \in matching :
                                    \A h \in matching : j <= h]
           IN /\ \A c \in CallsOf(r, "Create") :
                     calls[r][c].args[1] = first
              /\ \A c \in CallsOf(r, "Get") :
                     calls[r][c].path = first \o <<"isolated_hw_entry">>

\* A de-isolate request whose subtree reply held two different paths ending
\* in resourceId, and the endpoint read was issued.
C35_Witness ==
    \E r \in Orchestrations : \E k \in RepliesTo(r, "GetSubTreePaths") :
        LET objects == ReplyAt(r, k).objects
        IN /\ req[r].enabled /\ Len(objects) = 2
           /\ objects[1] # objects[2]
           /\ \A j \in 1..2 : LastSegment(objects[j]) = req[r].resourceId
           /\ CallsOf(r, "Get") # {}

\* C36: the calls of a status render are, in this order, the read of the
\* event_log association endpoints, the owner lookup and the property
\* fetch, or a prefix of these; none is a Create or a Delete.
C36_StatusRenderOnlyReads ==
    \A r \in Orchestrations :
        /\ Len(calls[r]) <= 3
        /\ \A c \in 1..Len(calls[r]) :
               /\ calls[r][c].method = <<"Get", "GetObject", "GetAll">>[c]
               /\ calls[r][c].method \notin {"Create", "Delete"}
               /\ c \in {1, 3} =>
                      calls[r][c].interface = "org.freedesktop.DBus.Properties"
               /\ c = 2 =>
                      calls[r][c].interface = "xyz.openbmc_project.ObjectMapper"

\* A render that issued all three calls and got the properties.
C36_Witness ==
    \E r \in Orchestrations :
        /\ Len(calls[r]) = 3 /\ pending[r] = {}
        /\ \E k \in RepliesTo(r, "GetAll") : ReplyAt(r, k).ec = 0

\* The positions at which the fold of the properties returns with an error:
\* a value of another type than expected, a Message without an entry in the
\* registry, a Severity outside the table.
Aborting(properties) ==
    Malformed(properties) \cup
    {p \in 1..Len(properties) :
         /\ properties[p].second.type = "string"
         /\ \/ properties[p].first = "Message" /\ registry = << >>
            \/ /\ properties[p].first = "Severity"
               /\ properties[p].second.string
                      \notin {SeverityCritical, SeverityWarning,
                               SeverityUnknown, SeverityOk}}
\* The keys of the condition that the properties before position n write:
\* those of ConditionKeys, LogEntry only with an error_log association.
WrittenBefore(properties, n) ==
    UNION {IF properties[p].first = "Associations"
                  /\ ErrorLogs(properties[p].second.associations) = {}
           THEN {}
           ELSE ConditionKeys(properties[p].first) :
               p \in {p \in 1..Len(properties) : p < n}}
\* The Status block holds exactly one condition, with these keys.
OneConditionWith(r, keys) ==
    /\ "Conditions" \in DOMAIN Status(r)
    /\ Len(Status(r).Conditions) = 1
    /\ DOMAIN Status(r).Conditions[1] = keys

\* C37: when the fold of the fetched properties returns with internalError,
\* State is "Disabled" and Conditions is an array of one object that holds
\* what the properties before the failing one (in key order) wrote.
C37_AbortedFoldKeepsStatus ==
    \A r \in Orchestrations : \A k \in RepliesTo(r, "GetAll") :
        LET properties == ReplyAt(r, k).properties
            aborting == Aborting(properties)
        IN (ReplyAt(r, k).ec = 0 /\ aborting # {}) =>
           LET at == CHOOSE p \in aborting : \A q \in aborting : p <= q
           IN /\ Outcomes(r) = <<internalError>>
              /\ Status(r).State = "Disabled"
              /\ OneConditionWith(r, WrittenBefore(properties, at))

\* The fold failed at a Severity outside the table after it had written the
\* Message of the event.
C37_Witness ==
    \E r \in Orchestrations : \E k \in RepliesTo(r, "GetAll") :
        LET properties == ReplyAt(r, k).properties
        IN /\ ReplyAt(r, k).ec = 0
           /\ \E p \in Aborting(properties) :
                  properties[p].first = "Severity"
           /\ Outcomes(r) = <<internalError>>
           /\ OneConditionWith(r, {"Message", "MessageArgs", "MessageId"})
           /\ Status(r).State = "Disabled"

\* C38: when no fetched property makes the fold fail, no error is written
\* and the Status block holds one condition with the fields of the
\* properties that were present; a property of another name adds nothing.
C38_AbsentAndUnknownProperties ==
    \A r \in Orchestrations : \A k \in RepliesTo(r, "GetAll") :
        LET properties == ReplyAt(r, k).properties
        IN (ReplyAt(r, k).ec = 0 /\ Aborting(properties) = {}) =>
           /\ Outcomes(r) = << >>
           /\ OneConditionWith(r, WrittenBefore(properties,
                                                Len(properties) + 1))

\* The event had only a Resolution and a Severity: the condition holds the
\* Severity alone and no error is written.
C38_Witness ==
    \E r \in Orchestrations : \E k \in RepliesTo(r, "GetAll") :
        LET properties == ReplyAt(r, k).properties
        IN /\ ReplyAt(r, k).ec = 0
           /\ Len(properties) = 2
           /\ properties[1].first = "Resolution"
           /\ properties[2].first = "Severity"
           /\ OneConditionWith(r, {"Severity"})
           /\ Outcomes(r) = << >>

====
